---- MODULE Spec2Model ----
(***************************************************************************)
(* Model of the Button component of tailwind-multistyle-components         *)
(* (src/src/components/button/button.tsx).                                 *)
(*                                                                         *)
(* A class string is modelled as the sequence of its whitespace-separated  *)
(* class names, in order; joining with one blank and splitting at blanks   *)
(* are the two directions of that representation.  A falsy argument of     *)
(* twMerge (false, undefined, "") contributes no class name and is the     *)
(* empty sequence.                                                         *)
(*                                                                         *)
(* Props are a function from the attribute names the caller wrote to their *)
(* values: an attribute the caller left out is not in the DOMAIN.          *)
(***************************************************************************)
EXTENDS Integers, Sequences, FiniteSets, TLC

VARIABLES props, rendered, pc, tables, log

vars == <<props, rendered, pc, tables, log>>

-----------------------------------------------------------------------------
(* Bounds of the model *)

\* Largest number of class names in the caller's className.
MaxClassNameLen == 2

\* Largest number of renders of one Button element.
MaxRenders == 3

-----------------------------------------------------------------------------
(* ButtonProps: the closed enumerations, button.tsx lines 4-10 *)

Tones == {"default", "danger", "warning", "success"}
Impacts == {"bold", "light", "bordered"}
Shapes == {"rounded", "pill", "square"}
Sizes == {"sm", "md", "lg"}

-----------------------------------------------------------------------------
(* The style token tables and constant fragments, button.tsx lines 19-71 *)

\* The mutant still carries the size and tone classes of the first version
\* of the component (README, the className of the first Button).
baseClasses_WithSizeAndTone ==
  << "bg-sky-500", "px-4", "py-3", "text-base", "font-semibold", "text-white",
     "hover:bg-sky-600", "focus-visible:outline-none", "focus-visible:ring-2",
     "focus-visible:ring-sky-500", "focus-visible:ring-offset-2",
     "active:translate-y-px", "disabled:bg-gray-300", "disabled:text-gray-400",
     "disabled:hover:cursor-not-allowed" >>

baseClasses ==
  << "font-semibold", "focus-visible:outline-none", "focus-visible:ring-2",
     "focus-visible:ring-offset-2", "disabled:hover:cursor-not-allowed",
     "disabled:bg-gray-300", "disabled:text-gray-400", "active:translate-y-px",
     "disabled:active:translate-y-0" >>

\* The mutant gives the bold warning entry the classes of the bold danger
\* entry it was copied from.
toneClasses_CopyPaste ==
  [ default |->
      [ bold |-> << "bg-sky-500", "text-white", "hover:bg-sky-600",
                    "focus-visible:ring-sky-500" >>,
        light |-> << "bg-sky-200", "text-sky-900", "hover:bg-sky-300",
                     "focus-visible:ring-sky-500" >>,
        bordered |-> << "outline", "outline-2", "outline-sky-500",
                        "hover:bg-sky-200", "focus-visible:ring-sky-500",
                        "dark:text-white", "dark:hover:text-black" >> ],
    danger |->
      [ bold |-> << "bg-rose-400", "hover:bg-rose-500",
                    "focus-visible:ring-rose-500" >>,
        light |-> << "bg-rose-200", "text-rose-900", "hover:bg-rose-300",
                     "focus-visible:ring-rose-500" >>,
        bordered |-> << "outline", "outline-2", "outline-rose-500",
                        "hover:bg-rose-200", "focus-visible:ring-rose-500",
                        "dark:text-white", "dark:hover:text-black" >> ],
    warning |->
      [ bold |-> << "bg-rose-400", "hover:bg-rose-500",
                    "focus-visible:ring-rose-500" >>,
        light |-> << "bg-amber-200", "text-amber-900", "hover:bg-amber-300",
                     "focus-visible:ring-amber-500" >>,
        bordered |-> << "outline", "outline-2", "outline-amber-500",
                        "hover:bg-amber-200", "focus-visible:ring-amber-500",
                        "dark:text-white", "dark:hover:text-black" >> ],
    success |->
      [ bold |-> << "bg-green-400", "hover:bg-green-500",
                    "focus-visible:ring-green-500" >>,
        light |-> << "bg-green-200", "text-green-900", "hover:bg-green-300",
                     "focus-visible:ring-green-500" >>,
        bordered |-> << "outline", "outline-2", "outline-green-500",
                        "hover:bg-green-200", "focus-visible:ring-green-500",
                        "dark:text-white", "dark:hover:text-black" >> ] ]

toneClasses ==
  [ default |->
      [ bold |-> << "bg-sky-500", "text-white", "hover:bg-sky-600",
                    "focus-visible:ring-sky-500" >>,
        light |-> << "bg-sky-200", "text-sky-900", "hover:bg-sky-300",
                     "focus-visible:ring-sky-500" >>,
        bordered |-> << "outline", "outline-2", "outline-sky-500",
                        "hover:bg-sky-200", "focus-visible:ring-sky-500",
                        "dark:text-white", "dark:hover:text-black" >> ],
    danger |->
      [ bold |-> << "bg-rose-400", "hover:bg-rose-500",
                    "focus-visible:ring-rose-500" >>,
        light |-> << "bg-rose-200", "text-rose-900", "hover:bg-rose-300",
                     "focus-visible:ring-rose-500" >>,
        bordered |-> << "outline", "outline-2", "outline-rose-500",
                        "hover:bg-rose-200", "focus-visible:ring-rose-500",
                        "dark:text-white", "dark:hover:text-black" >> ],
    warning |->
      [ bold |-> << "bg-amber-400", "hover:bg-amber-500",
                    "focus-visible:ring-amber-500" >>,
        light |-> << "bg-amber-200", "text-amber-900", "hover:bg-amber-300",
                     "focus-visible:ring-amber-500" >>,
        bordered |-> << "outline", "outline-2", "outline-amber-500",
                        "hover:bg-amber-200", "focus-visible:ring-amber-500",
                        "dark:text-white", "dark:hover:text-black" >> ],
    success |->
      [ bold |-> << "bg-green-400", "hover:bg-green-500",
                    "focus-visible:ring-green-500" >>,
        light |-> << "bg-green-200", "text-green-900", "hover:bg-green-300",
                     "focus-visible:ring-green-500" >>,
        bordered |-> << "outline", "outline-2", "outline-green-500",
                        "hover:bg-green-200", "focus-visible:ring-green-500",
                        "dark:text-white", "dark:hover:text-black" >> ] ]

\* The mutant has no entry for the pill shape.
shapeClasses_NoPill ==
  [ square |-> << "rounded-none" >>,
    rounded |-> << "rounded" >> ]

shapeClasses ==
  [ square |-> << "rounded-none" >>,
    rounded |-> << "rounded" >>,
    pill |-> << "rounded-full" >> ]

sizeClasses ==
  [ sm |-> << "p-2", "text-sm" >>,
    md |-> << "px-4", "py-3", "text-base" >>,
    lg |-> << "px-8", "py-4", "text-lg" >> ]

loadingClasses ==
  << "flex", "gap-2", "items-center", "justify-between", "cursor-progress" >>

disabledClasses == << "cursor-not-allowed" >>

\* The module scope after the module is loaded: the constants of lines 19-71
\* with the values their initialisers give them.
StyleTables ==
  [ baseClasses |-> baseClasses,
    toneClasses |-> toneClasses,
    shapeClasses |-> shapeClasses,
    sizeClasses |-> sizeClasses,
    loadingClasses |-> loadingClasses,
    disabledClasses |-> disabledClasses ]

-----------------------------------------------------------------------------
(* The class names of the caller *)

\* Class names a caller passes in className: a padding on all sides, a
\* horizontal padding, a cursor, and a class that is no Tailwind class.
CallerClasses == { "p-6", "px-8", "cursor-pointer", "my-btn" }

-----------------------------------------------------------------------------
(* Helpers on sequences *)

Range(s) == { s[i] : i \in 1..Len(s) }

RECURSIVE Flatten(_)
Flatten(ss) == IF ss = <<>> THEN <<>> ELSE Head(ss) \o Flatten(Tail(ss))

-----------------------------------------------------------------------------
(* twMerge of tailwind-merge, imported at button.tsx line 1 and called at  *)
(* lines 86-94: classes are read last to first; a class is dropped when a  *)
(* later class of the same class group, or of a group that overrides it,   *)
(* was kept under the same modifiers (README "Merging classes": "classes   *)
(* passed last always win. Any losing classes will be removed").           *)

\* The value of an argument that is false or undefined.
Undefined == <<>>

\* The variants (modifiers) in alphabetical order, the order sortModifiers
\* puts them in.
ModifierOrder == << "active", "dark", "disabled", "focus-visible", "hover" >>

ModifierRank(m) == CHOOSE i \in 1..Len(ModifierOrder) : ModifierOrder[i] = m

sortModifiers(modifiers) ==
  SortSeq(modifiers, LAMBDA a, b : ModifierRank(a) < ModifierRank(b))

\* The class names that carry modifiers, split at the ':' separators:
\* <<class name, modifiers in written order, base class name>>.
ModifiedClasses ==
  { << "focus-visible:outline-none", << "focus-visible" >>, "outline-none" >>,
    << "focus-visible:ring-2", << "focus-visible" >>, "ring-2" >>,
    << "focus-visible:ring-offset-2", << "focus-visible" >>, "ring-offset-2" >>,
    << "disabled:hover:cursor-not-allowed", << "disabled", "hover" >>,
       "cursor-not-allowed" >>,
    << "disabled:bg-gray-300", << "disabled" >>, "bg-gray-300" >>,
    << "disabled:text-gray-400", << "disabled" >>, "text-gray-400" >>,
    << "active:translate-y-px", << "active" >>, "translate-y-px" >>,
    << "disabled:active:translate-y-0", << "disabled", "active" >>,
       "translate-y-0" >>,
    << "hover:bg-sky-600", << "hover" >>, "bg-sky-600" >>,
    << "hover:bg-sky-300", << "hover" >>, "bg-sky-300" >>,
    << "hover:bg-sky-200", << "hover" >>, "bg-sky-200" >>,
    << "hover:bg-rose-500", << "hover" >>, "bg-rose-500" >>,
    << "hover:bg-rose-300", << "hover" >>, "bg-rose-300" >>,
    << "hover:bg-rose-200", << "hover" >>, "bg-rose-200" >>,
    << "hover:bg-amber-500", << "hover" >>, "bg-amber-500" >>,
    << "hover:bg-amber-300", << "hover" >>, "bg-amber-300" >>,
    << "hover:bg-amber-200", << "hover" >>, "bg-amber-200" >>,
    << "hover:bg-green-500", << "hover" >>, "bg-green-500" >>,
    << "hover:bg-green-300", << "hover" >>, "bg-green-300" >>,
    << "hover:bg-green-200", << "hover" >>, "bg-green-200" >>,
    << "focus-visible:ring-sky-500", << "focus-visible" >>, "ring-sky-500" >>,
    << "focus-visible:ring-rose-500", << "focus-visible" >>, "ring-rose-500" >>,
    << "focus-visible:ring-amber-500", << "focus-visible" >>,
       "ring-amber-500" >>,
    << "focus-visible:ring-green-500", << "focus-visible" >>,
       "ring-green-500" >>,
    << "dark:text-white", << "dark" >>, "text-white" >>,
    << "dark:hover:text-black", << "dark", "hover" >>, "text-black" >> }

\* splitModifiers: the modifiers before the last ':' and the base class name
\* after it.  No class name of the model carries the important modifier.
splitModifiers(className) ==
  IF \E r \in ModifiedClasses : r[1] = className
  THEN LET r == CHOOSE r \in ModifiedClasses : r[1] = className
       IN  [ modifiers |-> r[2], hasImportantModifier |-> FALSE,
             baseClassName |-> r[3] ]
  ELSE [ modifiers |-> <<>>, hasImportantModifier |-> FALSE,
         baseClassName |-> className ]

\* The class groups of the default configuration, restricted to the base
\* class names that occur in the model.
ClassGroups ==
  [ display |-> { "flex" },
    gap |-> { "gap-2" },
    align_items |-> { "items-center" },
    justify_content |-> { "justify-between" },
    p |-> { "p-2", "p-6" },
    px |-> { "px-4", "px-8" },
    py |-> { "py-3", "py-4" },
    font_size |-> { "text-sm", "text-base", "text-lg" },
    font_weight |-> { "font-semibold" },
    text_color |-> { "text-white", "text-black", "text-gray-400",
                     "text-sky-900", "text-rose-900", "text-amber-900",
                     "text-green-900" },
    bg_color |-> { "bg-gray-300",
                   "bg-sky-200", "bg-sky-300", "bg-sky-500", "bg-sky-600",
                   "bg-rose-200", "bg-rose-300", "bg-rose-400", "bg-rose-500",
                   "bg-amber-200", "bg-amber-300", "bg-amber-400",
                   "bg-amber-500",
                   "bg-green-200", "bg-green-300", "bg-green-400",
                   "bg-green-500" },
    rounded |-> { "rounded", "rounded-none", "rounded-full" },
    outline_style |-> { "outline", "outline-none" },
    outline_w |-> { "outline-2" },
    outline_color |-> { "outline-sky-500", "outline-rose-500",
                        "outline-amber-500", "outline-green-500" },
    ring_w |-> { "ring-2" },
    ring_offset_w |-> { "ring-offset-2" },
    ring_color |-> { "ring-sky-500", "ring-rose-500", "ring-amber-500",
                     "ring-green-500" },
    translate_y |-> { "translate-y-px", "translate-y-0" },
    cursor |-> { "cursor-not-allowed", "cursor-progress", "cursor-pointer" } ]

\* The class group id of a class that is no Tailwind class.
NoClassGroup == "undefined"

getClassGroupId(baseClassName) ==
  IF \E g \in DOMAIN ClassGroups : baseClassName \in ClassGroups[g]
  THEN CHOOSE g \in DOMAIN ClassGroups : baseClassName \in ClassGroups[g]
  ELSE NoClassGroup

\* conflictingClassGroups of the default configuration: the groups a class
\* of the given group overrides besides its own.  The relation is not
\* symmetric: p overrides px and py, px and py do not override p.
getConflictingClassGroupIds(classGroupId) ==
  CASE classGroupId = "p" -> { "px", "py", "ps", "pe", "pt", "pr", "pb", "pl" }
    [] classGroupId = "px" -> { "pr", "pl" }
    [] classGroupId = "py" -> { "pt", "pb" }
    [] classGroupId = "gap" -> { "gap_x", "gap_y" }
    [] classGroupId = "font_size" -> { "leading" }
    [] classGroupId = "rounded" ->
         { "rounded_s", "rounded_e", "rounded_t", "rounded_r", "rounded_b",
           "rounded_l", "rounded_ss", "rounded_se", "rounded_ee",
           "rounded_es", "rounded_tl", "rounded_tr", "rounded_br",
           "rounded_bl" }
    [] OTHER -> {}

\* The parse of one class name in mergeClassList.
parseClassName(originalClassName) ==
  LET split == splitModifiers(originalClassName)
      classGroupId == getClassGroupId(split.baseClassName)
      modifierId == << sortModifiers(split.modifiers),
                       split.hasImportantModifier >>
  IN  [ isTailwindClass |-> classGroupId # NoClassGroup,
        modifierId |-> modifierId,
        classGroupId |-> classGroupId,
        classId |-> << modifierId, classGroupId >>,
        conflictingClassIds |->
          { << modifierId, g >> :
              g \in getConflictingClassGroupIds(classGroupId) },
        originalClassName |-> originalClassName ]

\* Every class name of the model: those of the fragments and those a caller
\* passes.
KnownClasses ==
  Range(baseClasses) \cup Range(loadingClasses) \cup Range(disabledClasses)
    \cup UNION { Range(shapeClasses[k]) : k \in DOMAIN shapeClasses }
    \cup UNION { Range(sizeClasses[k]) : k \in DOMAIN sizeClasses }
    \cup UNION { UNION { Range(toneClasses[t][i]) :
                           i \in DOMAIN toneClasses[t] } :
                   t \in DOMAIN toneClasses }
    \cup CallerClasses

\* The parse of every class name, computed once (the merge caches its
\* results per class string).
ParsedClasses == [ c \in KnownClasses |-> parseClassName(c) ]

\* The reverse filter of mergeClassList over classList[1..i], given the
\* class ids already claimed by the classes after position i.
RECURSIVE filterFromEnd(_, _, _)
filterFromEnd(classList, i, classGroupsInConflict) ==
  IF i = 0 THEN <<>>
  ELSE LET parsed == ParsedClasses[classList[i]]
       IN  IF ~parsed.isTailwindClass
           THEN Append(filterFromEnd(classList, i - 1, classGroupsInConflict),
                       classList[i])
           ELSE IF parsed.classId \in classGroupsInConflict
           THEN filterFromEnd(classList, i - 1, classGroupsInConflict)
           ELSE Append(filterFromEnd(classList, i - 1,
                         classGroupsInConflict \cup { parsed.classId }
                           \cup parsed.conflictingClassIds),
                       classList[i])

mergeClassList(classList) == filterFromEnd(classList, Len(classList), {})

\* twJoin: the truthy arguments, in order, joined by one blank.
twJoin(classLists) == Flatten(classLists)

twMerge(classLists) == mergeClassList(twJoin(classLists))

-----------------------------------------------------------------------------
(* The Button component, button.tsx lines 73-101 *)

Has(p, k) == k \in DOMAIN p

\* A destructuring default: it applies when the caller left the field out.
Default(p, k, d) == IF Has(p, k) THEN p[k] ELSE d

\* Reading a lookup object: a key that has no entry reads undefined.
Lookup(table, key) == IF key \in DOMAIN table THEN table[key] ELSE Undefined

\* cond && value
AndAlso(cond, value) == IF cond THEN value ELSE Undefined

\* The fields the parameter list (lines 74-79) and line 82 take out of the
\* props.
ExplicitFields_NoIsLoading ==
  { "size", "shape", "tone", "impact", "children", "className" }

\* The mutant spreads restProps itself, without line 82.
ExplicitFields_NoClassName ==
  { "size", "shape", "tone", "impact", "isLoading", "children" }

ExplicitFields ==
  { "size", "shape", "tone", "impact", "isLoading", "children", "className" }

\* const { className, ...rest } = restProps
RestOf(p) == [ k \in DOMAIN p \ ExplicitFields |-> p[k] ]

\* The defaults of the parameter list, lines 74-78.
DefaultProps_SmallSize ==
  [ size |-> "sm", shape |-> "rounded", tone |-> "default", impact |-> "bold",
    isLoading |-> FALSE ]

DefaultProps ==
  [ size |-> "md", shape |-> "rounded", tone |-> "default", impact |-> "bold",
    isLoading |-> FALSE ]

\* The loading indicator element, <LoadingSpinner />.
LoadingSpinner == [ type |-> "LoadingSpinner", text |-> "" ]

\* The arguments of twMerge, lines 87-93, in the order they are passed; the
\* constants are read from the module scope.
\* The mutants pass the caller's className first, leave the disabled
\* fragment out, pass the loading fragment before the disabled fragment, and
\* read the size fragment of md whatever the size.
ClassNameArguments_ClassNameFirst(p) ==
  LET size == Default(p, "size", DefaultProps.size)
      shape == Default(p, "shape", DefaultProps.shape)
      tone == Default(p, "tone", DefaultProps.tone)
      impact == Default(p, "impact", DefaultProps.impact)
      isLoading == Default(p, "isLoading", DefaultProps.isLoading)
      rest == RestOf(p)
      className == Default(p, "className", Undefined)
  IN  << className,
         tables.baseClasses,
         Lookup(tables.shapeClasses, shape),
         Lookup(tables.sizeClasses, size),
         Lookup(Lookup(tables.toneClasses, tone), impact),
         AndAlso(Has(rest, "disabled") /\ rest.disabled, tables.disabledClasses),
         AndAlso(isLoading, tables.loadingClasses) >>

ClassNameArguments_NoDisabled(p) ==
  LET size == Default(p, "size", DefaultProps.size)
      shape == Default(p, "shape", DefaultProps.shape)
      tone == Default(p, "tone", DefaultProps.tone)
      impact == Default(p, "impact", DefaultProps.impact)
      isLoading == Default(p, "isLoading", DefaultProps.isLoading)
      className == Default(p, "className", Undefined)
  IN  << tables.baseClasses,
         Lookup(tables.shapeClasses, shape),
         Lookup(tables.sizeClasses, size),
         Lookup(Lookup(tables.toneClasses, tone), impact),
         AndAlso(isLoading, tables.loadingClasses),
         className >>

ClassNameArguments_LoadingBeforeDisabled(p) ==
  LET size == Default(p, "size", DefaultProps.size)
      shape == Default(p, "shape", DefaultProps.shape)
      tone == Default(p, "tone", DefaultProps.tone)
      impact == Default(p, "impact", DefaultProps.impact)
      isLoading == Default(p, "isLoading", DefaultProps.isLoading)
      rest == RestOf(p)
      className == Default(p, "className", Undefined)
  IN  << tables.baseClasses,
         Lookup(tables.shapeClasses, shape),
         Lookup(tables.sizeClasses, size),
         Lookup(Lookup(tables.toneClasses, tone), impact),
         AndAlso(isLoading, tables.loadingClasses),
         AndAlso(Has(rest, "disabled") /\ rest.disabled, tables.disabledClasses),
         className >>

ClassNameArguments_FixedSize(p) ==
  LET shape == Default(p, "shape", DefaultProps.shape)
      tone == Default(p, "tone", DefaultProps.tone)
      impact == Default(p, "impact", DefaultProps.impact)
      isLoading == Default(p, "isLoading", DefaultProps.isLoading)
      rest == RestOf(p)
      className == Default(p, "className", Undefined)
  IN  << tables.baseClasses,
         Lookup(tables.shapeClasses, shape),
         Lookup(tables.sizeClasses, "md"),
         Lookup(Lookup(tables.toneClasses, tone), impact),
         AndAlso(Has(rest, "disabled") /\ rest.disabled, tables.disabledClasses),
         AndAlso(isLoading, tables.loadingClasses),
         className >>

ClassNameArguments(p) ==
  LET size == Default(p, "size", DefaultProps.size)
      shape == Default(p, "shape", DefaultProps.shape)
      tone == Default(p, "tone", DefaultProps.tone)
      impact == Default(p, "impact", DefaultProps.impact)
      isLoading == Default(p, "isLoading", DefaultProps.isLoading)
      rest == RestOf(p)
      className == Default(p, "className", Undefined)
  IN  << tables.baseClasses,
         Lookup(tables.shapeClasses, shape),
         Lookup(tables.sizeClasses, size),
         Lookup(Lookup(tables.toneClasses, tone), impact),
         AndAlso(Has(rest, "disabled") /\ rest.disabled, tables.disabledClasses),
         AndAlso(isLoading, tables.loadingClasses),
         className >>

\* className={twMerge(...)}, lines 86-94.  The mutant joins the arguments as
\* clsx does, without resolving conflicts.
ButtonClassName_clsx(p) == twJoin(ClassNameArguments(p))

ButtonClassName(p) == twMerge(ClassNameArguments(p))

\* The children of the rendered button, lines 97-98: {children} and then
\* {isLoading && <LoadingSpinner />}; undefined and false render nothing.
ButtonChildren_SpinnerFirst(p) ==
  LET isLoading == Default(p, "isLoading", DefaultProps.isLoading)
  IN  (IF isLoading THEN << LoadingSpinner >> ELSE <<>>)
      \o (IF Has(p, "children")
          THEN << [ type |-> "text", text |-> p.children ] >> ELSE <<>>)

ButtonChildren(p) ==
  LET isLoading == Default(p, "isLoading", DefaultProps.isLoading)
  IN  (IF Has(p, "children")
       THEN << [ type |-> "text", text |-> p.children ] >> ELSE <<>>)
      \o (IF isLoading THEN << LoadingSpinner >> ELSE <<>>)

\* <button className={...} {...rest}>, lines 85-99: of two attributes of one
\* name the one spread last wins.  The mutant disables the button while it
\* is loading.
Button_DisabledWhileLoading(p) ==
  [ type |-> "button",
    attrs |-> (IF Default(p, "isLoading", DefaultProps.isLoading)
               THEN "disabled" :> TRUE ELSE RestOf(p))
              @@ RestOf(p) @@ ("className" :> ButtonClassName(p)),
    children |-> ButtonChildren(p) ]

Button(p) ==
  [ type |-> "button",
    attrs |-> RestOf(p) @@ ("className" :> ButtonClassName(p)),
    children |-> ButtonChildren(p) ]

-----------------------------------------------------------------------------
(* The props a caller can pass *)

\* The className values: one to MaxClassNameLen class names.
ClassNames == UNION { [1..n -> CallerClasses] : n \in 1..MaxClassNameLen }

NoProps == [ k \in {} |-> k ]

Optional(k, values) == { NoProps } \cup { k :> v : v \in values }

\* The content and the native attributes of a call: <Button />,
\* <Button>Click me</Button> and <Button aria-label="Save">Click me</Button>.
ContentAndAttributes ==
  { NoProps,
    "children" :> "Click me",
    ("children" :> "Click me") @@ ("aria-label" :> "Save") }

PropsSpace ==
  { a @@ b @@ c @@ d @@ e @@ f @@ g @@ h :
      a \in Optional("tone", Tones),
      b \in Optional("impact", Impacts),
      c \in Optional("shape", Shapes),
      d \in Optional("size", Sizes),
      e \in Optional("isLoading", BOOLEAN),
      f \in Optional("disabled", BOOLEAN),
      g \in Optional("className", ClassNames),
      h \in ContentAndAttributes }

NotRendered == [ type |-> "none", attrs |-> NoProps, children |-> <<>> ]

-----------------------------------------------------------------------------------------------------------------------------------------------------
(* The state machine: the host hands the component its props and invokes   *)
(* the render function; log records the props and the class string of      *)
(* every render, in order.                                                 *)

Init ==
  /\ props \in PropsSpace
  /\ rendered = NotRendered
  /\ pc = "start"
  /\ tables = StyleTables
  /\ log = <<>>

\* The mutant keeps the merge of the size fragment and the caller's
\* className in the size table.
Render_MutatesTable ==
  /\ pc = "start"
  /\ rendered' = Button(props)
  /\ pc' = "done"
  /\ tables' =
       [ tables EXCEPT
           !.sizeClasses[Default(props, "size", DefaultProps.size)] =
             twMerge(<< @, Default(props, "className", Undefined) >>) ]
  /\ log' = Append(log, [ props |-> props,
                          className |-> rendered'.attrs["className"] ])
  /\ UNCHANGED props

Render ==
  /\ pc = "start"
  /\ rendered' = Button(props)
  /\ pc' = "done"
  /\ log' = Append(log, [ props |-> props,
                          className |-> rendered'.attrs["className"] ])
  /\ UNCHANGED << props, tables >>

Next == Render

Spec == Init /\ [][Next]_vars

-----------------------------------------------------------------------------
(* The state machine of one element that the host renders again whenever   *)
(* its props change (spec section 5)                                       *)

\* The props of the element over its life: size, className and isLoading,
\* each given or left out.
RerenderProps ==
  { a @@ b @@ c :
      a \in Optional("size", { "lg" }),
      b \in Optional("className", { << "p-6" >> }),
      c \in Optional("isLoading", { TRUE }) }

InitRerender ==
  /\ props \in RerenderProps
  /\ rendered = NotRendered
  /\ pc = "start"
  /\ tables = StyleTables
  /\ log = <<>>

\* The host passes new props (or the same ones) and renders again.
Rerender ==
  /\ pc = "done"
  /\ Len(log) < MaxRenders
  /\ \E p \in RerenderProps : props' = p
  /\ pc' = "start"
  /\ UNCHANGED << rendered, tables, log >>

NextRerender == Render \/ Rerender

SpecRerender == InitRerender /\ [][NextRerender]_vars

-----
(* What the claims speak about *)

Done == pc = "done"

\* The class names of the class attribute of the rendered button.
FinalClasses == Range(rendered.attrs["className"])

\* The variant selection, the flags and the className of the props, read
\* with the defaults the interface documents.
SelTone == IF Has(props, "tone") THEN props.tone ELSE "default"
SelImpact == IF Has(props, "impact") THEN props.impact ELSE "bold"
SelShape == IF Has(props, "shape") THEN props.shape ELSE "rounded"
SelSize == IF Has(props, "size") THEN props.size ELSE "md"
IsDisabled == Has(props, "disabled") /\ props.disabled
IsLoading == Has(props, "isLoading") /\ props.isLoading
CallerClassName == IF Has(props, "className") THEN props.className ELSE <<>>

\* The computed defaults: every fragment the component itself contributes.
ComputedDefaults ==
  baseClasses \o shapeClasses[SelShape] \o sizeClasses[SelSize]
    \o toneClasses[SelTone][SelImpact]
    \o (IF IsDisabled THEN disabledClasses ELSE <<>>)
    \o (IF IsLoading THEN loadingClasses ELSE <<>>)

\* Class c overrides class d in the merge: both are Tailwind classes under
\* the same modifiers, and d's group is c's group or a group c's group
\* overrides.
Overrides(c, d) ==
  LET parsedC == ParsedClasses[c]
      parsedD == ParsedClasses[d]
  IN  /\ parsedC.isTailwindClass
      /\ parsedD.isTailwindClass
      /\ parsedD.classId
           \in ({ parsedC.classId } \cup parsedC.conflictingClassIds)

\* Two distinct classes set a common style property under the same
\* modifiers.
Conflicts(c, d) == c # d /\ (Overrides(c, d) \/ Overrides(d, c))

-----------------------------------------------------------------------------
(* C1 *)

-----------------------------------------------------------------------------
(* C2 *)

\* C2: the class attribute is the merge of base, shape, size, tone x impact,
\* disabled fragment if disabled, loading fragment if isLoading, and last the
\* caller's className, in this order and of nothing else.
C2_MergeSequence ==
  Done =>
    rendered.attrs["className"] =
      mergeClassList(ComputedDefaults \o CallerClassName)

\* A render in which every optional fragment takes part.
C2_Witness ==
  /\ Done
  /\ IsDisabled
  /\ IsLoading
  /\ Len(CallerClassName) = 2
  /\ rendered.attrs["className"] # ComputedDefaults \o CallerClassName

-----------------------------------------------------------------------------
(* C3 *)

\* C3, as stated: whenever disabled is true, cursor-not-allowed is in the
\* class string, whatever the variants and isLoading (taken here for the
\* renders without a caller className, which the claim does not speak of).
C3_Original ==
  Done /\ IsDisabled /\ ~Has(props, "className")
    => "cursor-not-allowed" \in FinalClasses

\* C3, amended: whenever disabled is true, isLoading is not true and no class
\* of the caller's className overrides cursor-not-allowed, cursor-not-allowed
\* is in the class string; when disabled and isLoading are both true and the
\* caller passes no className, the loading cursor has replaced it.
C3_MutedStyle ==
  Done /\ IsDisabled =>
    /\ ( /\ ~IsLoading
         /\ \A c \in Range(CallerClassName) : ~Overrides(c, "cursor-not-allowed") )
       => "cursor-not-allowed" \in FinalClasses
    /\ IsLoading /\ CallerClassName = <<>>
       => /\ "cursor-not-allowed" \notin FinalClasses
          /\ "cursor-progress" \in FinalClasses

\* A disabled button that is not loading, with a className that leaves the
\* cursor alone.
C3_Witness ==
  /\ Done
  /\ IsDisabled
  /\ ~IsLoading
  /\ CallerClassName = << "p-6", "my-btn" >>
  /\ "cursor-not-allowed" \in FinalClasses

-----------------------------------------------------------------------------
(* C4 *)

\* C4: the disabled attribute of the rendered button is the caller's disabled
\* prop: present with the same value when the caller passed it, absent when
\* the caller did not, whatever isLoading is.
C4_DisabledPassThrough ==
  Done =>
    /\ Has(rendered.attrs, "disabled") = Has(props, "disabled")
    /\ Has(props, "disabled") => rendered.attrs["disabled"] = props.disabled

\* A loading button the caller did not disable: it stays interactive.
C4_Witness ==
  /\ Done
  /\ IsLoading
  /\ ~Has(props, "disabled")
  /\ ~Has(rendered.attrs, "disabled")

-----------------------------------------------------------------------------
(* C5 *)

SpinnerCount ==
  Cardinality({ i \in 1..Len(rendered.children) :
                  rendered.children[i].type = "LoadingSpinner" })

SuppliedChildren ==
  IF Has(props, "children")
  THEN << [ type |-> "text", text |-> props.children ] >> ELSE <<>>

\* C5: when isLoading is true the button contains the supplied children
\* followed by exactly one loading indicator; when isLoading is false or
\* unspecified it contains the children and no loading indicator.
C5_LoadingIndicator ==
  Done =>
    IF IsLoading
    THEN /\ SpinnerCount = 1
         /\ rendered.children = SuppliedChildren \o << LoadingSpinner >>
    ELSE /\ SpinnerCount = 0
         /\ rendered.children = SuppliedChildren

\* A loading button with children: two child nodes, the indicator last.
C5_Witness ==
  /\ Done
  /\ IsLoading
  /\ Has(props, "children")
  /\ Len(rendered.children) = 2
  /\ rendered.children[2] = LoadingSpinner

-----------------------------------------------------------------------------
(* C6 *)

\* The props with every omitted variant field written out with the
\* documented default.
WithExplicitDefaults(p) ==
  p @@ [ tone |-> "default", impact |-> "bold", shape |-> "rounded",
         size |-> "md" ]

\* C6: a render with any of tone, impact, shape, size left out yields the
\* class string and the tree of the render with the omitted fields set to
\* tone=default, impact=bold, shape=rounded, size=md.
C6_DefaultsAreExplicit ==
  Done =>
    LET explicit == Button(WithExplicitDefaults(props))
    IN  /\ rendered.attrs["className"] = explicit.attrs["className"]
        /\ rendered = explicit

\* <Button>Click me</Button>: no variant field given, and the class string
\* carries the medium padding and the bold default tone.
C6_Witness ==
  /\ Done
  /\ DOMAIN props = { "children" }
  /\ { "rounded", "px-4", "py-3", "text-base", "bg-sky-500" }
       \subseteq FinalClasses

-----------------------------------------------------------------------------
(* C7 *)

VariantAndLoadingFields == { "tone", "impact", "shape", "size", "isLoading" }

\* C7: every attribute of the props other than tone, impact, shape, size,
\* isLoading, className and children is forwarded to the button with its
\* value, and tone, impact, shape, size, isLoading are never forwarded.
C7_PassThrough ==
  Done =>
    /\ \A k \in DOMAIN props \ (VariantAndLoadingFields
                                  \cup { "className", "children" }) :
         Has(rendered.attrs, k) /\ rendered.attrs[k] = props[k]
    /\ \A k \in VariantAndLoadingFields : ~Has(rendered.attrs, k)

\* A call with every explicit field and two native attributes.
C7_Witness ==
  /\ Done
  /\ VariantAndLoadingFields \subseteq DOMAIN props
  /\ Has(props, "aria-label")
  /\ Has(props, "disabled")
  /\ rendered.attrs["aria-label"] = "Save"
  /\ DOMAIN rendered.attrs = { "aria-label", "disabled", "className" }

-----------------------------------------------------------------------------
(* C8 *)

\* C8: toneClasses has an entry for each of the 12 (tone, impact) pairs and
\* for no other key, shapeClasses for each of the 3 shapes, sizeClasses for
\* each of the 3 sizes, and the lookups of a render read no missing entry.
C8_LookupTotal ==
  /\ DOMAIN toneClasses = Tones
  /\ \A t \in Tones : DOMAIN toneClasses[t] = Impacts
  /\ Cardinality({ << t, i >> : t \in Tones, i \in Impacts }) = 12
  /\ DOMAIN shapeClasses = Shapes
  /\ DOMAIN sizeClasses = Sizes
  /\ Done =>
       /\ Lookup(shapeClasses, SelShape) # Undefined
       /\ Lookup(sizeClasses, SelSize) # Undefined
       /\ Lookup(Lookup(toneClasses, SelTone), SelImpact) # Undefined

\* A render that selects the last entry of each table.
C8_Witness ==
  /\ Done
  /\ Has(props, "tone") /\ props.tone = "success"
  /\ Has(props, "impact") /\ props.impact = "bordered"
  /\ Has(props, "shape") /\ props.shape = "pill"
  /\ Has(props, "size") /\ props.size = "lg"
  /\ { "rounded-full", "text-lg", "outline-green-500" } \subseteq FinalClasses

-----------------------------------------------------------------------------
(* C9 *)

\* C9: the tone x impact fragment of every render is non-empty, and no other
\* (tone, impact) pair has the same fragment; the renders select each of the
\* 12 pairs.
C9_FragmentsDistinct ==
  Done =>
    LET fragment == toneClasses[SelTone][SelImpact]
    IN  /\ fragment # <<>>
        /\ \A t \in Tones : \A i \in Impacts :
             toneClasses[t][i] = fragment => t = SelTone /\ i = SelImpact

\* Two renders are told apart by their tone x impact fragment: a bold warning
\* button carries a class no bold danger button carries.
C9_Witness ==
  /\ Done
  /\ SelTone = "warning"
  /\ SelImpact = "bold"
  /\ ~Has(props, "className")
  /\ Range(toneClasses["warning"]["bold"]) \subseteq FinalClasses
  /\ ~(Range(toneClasses["danger"]["bold"]) \subseteq FinalClasses)

-----------------------------------------------------------------------------
(* C10 *)

\* The classes of the selected size and tone x impact fragments.
SelectedClasses ==
  Range(sizeClasses[SelSize]) \cup Range(toneClasses[SelTone][SelImpact])

\* The classes that belong only to unselected sizes or tone x impact pairs.
UnselectedOnlyClasses ==
  ( UNION { Range(sizeClasses[s]) : s \in Sizes \ { SelSize } }
    \cup UNION { Range(toneClasses[ti[1]][ti[2]]) :
                   ti \in (Tones \X Impacts) \ { << SelTone, SelImpact >> } } )
  \ SelectedClasses

\* C10: without a caller className, the class string contains every class of
\* the selected size fragment and of the selected tone x impact fragment and
\* no class that belongs only to an unselected size or tone x impact entry.
C10_SelectedFragmentsOnly ==
  Done /\ ~Has(props, "className") =>
    /\ SelectedClasses \subseteq FinalClasses
    /\ UnselectedOnlyClasses \cap FinalClasses = {}

\* size=lg, tone=danger, impact=bordered: the large padding and the danger
\* outline are in, the medium padding and the bold danger background out.
C10_Witness ==
  /\ Done
  /\ ~Has(props, "className")
  /\ SelSize = "lg" /\ SelTone = "danger" /\ SelImpact = "bordered"
  /\ { "px-8", "py-4", "outline", "outline-rose-500" } \subseteq FinalClasses
  /\ { "px-4", "py-3", "bg-rose-400" } \cap FinalClasses = {}

-----------------------------------------------------------------------------
(* C11 *)

\* The sequence passed to the merge: the computed defaults and then the
\* caller's className.
MergeInput == ComputedDefaults \o CallerClassName

FinalList == rendered.attrs["className"]

OverridePairs ==
  { cd \in KnownClasses \X KnownClasses : Overrides(cd[1], cd[2]) }

\* The classes that are no Tailwind classes.
OtherClasses == { c \in KnownClasses : ~ParsedClasses[c].isTailwindClass }

\* The positions of a class list whose class survives the merge: the classes
\* that are no Tailwind classes, and the Tailwind classes no later class
\* overrides.
SurvivingPositions(classList) ==
  { i \in 1..Len(classList) :
      \/ classList[i] \in OtherClasses
      \/ \A j \in (i + 1)..Len(classList) :
           << classList[j], classList[i] >> \notin OverridePairs }

\* The classes at the surviving positions, in their order.
SurvivingClasses(classList) ==
  LET surviving == SurvivingPositions(classList)
      positions == SelectSeq([ i \in 1..Len(classList) |-> i ],
                             LAMBDA i : i \in surviving)
  IN  [ n \in 1..Len(positions) |-> classList[positions[n]] ]

-----------------------------------------------------------------------------
(* C12 *)

-----------------------------------------------------------------------------
(* C13 *)

\* C13: after any sequence of renders the style token tables and the
\* constant fragments have the values of their initialisers.
C13_TablesUnchanged ==
  /\ tables.toneClasses = toneClasses
  /\ tables.shapeClasses = shapeClasses
  /\ tables.sizeClasses = sizeClasses
  /\ tables.baseClasses = baseClasses
  /\ tables.loadingClasses = loadingClasses
  /\ tables.disabledClasses = disabledClasses

\* Two renders are done, one of them with a caller className and one of
\* them loading.
C13_Witness ==
  /\ Len(log) >= 2
  /\ \E n \in 1..Len(log) : Has(log[n].props, "className")
  /\ \E n \in 1..Len(log) : Has(log[n].props, "isLoading")
  /\ tables = StyleTables

-----------------------------------------------------------------------------
(* C14 *)

\* C14: the class attribute of the rendered button is the merged string and
\* never the caller's raw className: className is not among the attributes
\* spread after it.
C14_ClassNameNotSpread ==
  Done /\ Has(props, "className") =>
    /\ rendered.attrs["className"] # props.className
    /\ rendered.attrs["className"]
         = twMerge(<< ComputedDefaults, props.className >>)

\* A caller className of two classes, and a class attribute that carries
\* the base fragment as well.
C14_Witness ==
  /\ Done
  /\ Has(props, "className")
  /\ props.className = << "my-btn", "cursor-pointer" >>
  /\ "font-semibold" \in FinalClasses
  /\ "my-btn" \in FinalClasses

-----------------------------------------------------------------------------
(* C15 *)

\* C15: when isLoading is true and the caller gives no className, the class
\* string contains every class of the loading fragment, cursor-progress
\* included, whatever the variants and whether or not disabled is true.
C15_LoadingFragment ==
  Done /\ IsLoading /\ ~Has(props, "className") =>
    Range(loadingClasses) \subseteq FinalClasses

\* A disabled loading button: the loading cursor is the one that is left.
C15_Witness ==
  /\ Done
  /\ IsLoading
  /\ IsDisabled
  /\ ~Has(props, "className")
  /\ "cursor-progress" \in FinalClasses
  /\ "cursor-not-allowed" \notin FinalClasses

-----------------------------------------------------------------------------
(* C16 *)

\* C16: with disabled false, isLoading false and no className, the class
\* string is the base, shape, size and tone x impact fragments one after the
\* other, each class once, and has neither cursor-not-allowed nor
\* cursor-progress.
C16_FragmentsDoNotConflict ==
  Done /\ ~IsDisabled /\ ~IsLoading /\ ~Has(props, "className") =>
    LET expected == baseClasses \o shapeClasses[SelShape]
                      \o sizeClasses[SelSize] \o toneClasses[SelTone][SelImpact]
    IN  /\ FinalList = expected
        /\ Cardinality(Range(expected)) = Len(expected)
        /\ "cursor-not-allowed" \notin FinalClasses
        /\ "cursor-progress" \notin FinalClasses

\* A large bordered pill of the success tone, no flag set: 9 + 1 + 3 + 7
\* classes.
C16_Witness ==
  /\ Done
  /\ ~IsDisabled /\ ~IsLoading /\ ~Has(props, "className")
  /\ SelShape = "pill" /\ SelSize = "lg"
  /\ SelTone = "success" /\ SelImpact = "bordered"
  /\ Len(FinalList) = 20
  /\ FinalList[10] = "rounded-full"

====
